---- MODULE Spec2Model ----
(***************************************************************************)
(* A model of the ICU corpus builder (src/data_processing/build_corpus.py) *)
(* and of the structural metric functions of quant_profiling.py.           *)
(*                                                                         *)
(* build_corpus.py is a straight-line script over three pandas tables; a   *)
(* table is a sequence of records, one record per row, and every statement *)
(* of the script that changes a table is one action, taken in the order of *)
(* the script (pc names the statement that runs next).  A statement that   *)
(* raises ends the run in pc = "aborted" with no corpus written.           *)
(***************************************************************************)
EXTENDS Integers, Sequences, FiniteSets, TLC

VARIABLES
    NOTEEVENTS_csv,   \* data/raw/NOTEEVENTS.csv as read (never written)
    ICUSTAYS_csv,     \* data/raw/ICUSTAYS.csv as read (never written)
    PATIENTS_csv,     \* data/raw/PATIENTS.csv as read (never written)
    pc,               \* the statement of build_corpus.py that runs next
    notes,            \* build_corpus.py: notes
    icustays,         \* build_corpus.py: icustays
    patients,         \* build_corpus.py: patients
    notes_filtered,   \* build_corpus.py: notes_filtered
    corpus,           \* build_corpus.py: corpus
    icu_corpus_csv,   \* data/processed/icu_corpus.csv (written by the last line)
    ppc,              \* quant_profiling.main: "loop" while rows remain, then "done"
    sample_df,        \* quant_profiling.main: the TEXT column of sample_df
    metrics,          \* quant_profiling.main: metrics, one dictionary per row done
    summary           \* quant_profiling.main: summary, once the loop is over

vars == <<NOTEEVENTS_csv, ICUSTAYS_csv, PATIENTS_csv, pc, notes, icustays,
          patients, notes_filtered, corpus, icu_corpus_csv, ppc, sample_df,
          metrics, summary>>

corpusVars == <<pc, notes, icustays, patients, notes_filtered, corpus,
                icu_corpus_csv>>
fileVars == <<NOTEEVENTS_csv, ICUSTAYS_csv, PATIENTS_csv>>
profileVars == <<ppc, sample_df, metrics, summary>>

-----------------------------------------------------------------------------
(* Sequences *)

RECURSIVE Concat(_)
Concat(ss) == IF ss = <<>> THEN <<>> ELSE Head(ss) \o Concat(Tail(ss))

Range(s) == {s[i] : i \in DOMAIN s}

\* All sequences over S of length at most n.
SeqsUpTo(S, n) == UNION {[1..k -> S] : k \in 0..n}

-----------------------------------------------------------------------------
(* Cells of the raw CSV files and their parsed values *)

\* A timestamp cell of a CSV file: a well-formed date string, an empty cell
\* (read_csv gives NaN), or text that is no date.
TsCell(y, s) == [k |-> "ts", year |-> y, sec |-> s]
EmptyCell == [k |-> "empty", year |-> 0, sec |-> 0]
GarbageCell == [k |-> "garbage", year |-> 0, sec |-> 0]

\* A datetime64 value: a calendar year and the seconds elapsed in it, or NaT.
Ts(y, s) == [nat |-> FALSE, year |-> y, sec |-> s]
NaT == [nat |-> TRUE, year |-> 0, sec |-> 0]

\* pd.to_datetime(column), errors="raise" (the default): a cell that is no
\* date raises, an empty cell becomes NaT.
to_datetime_raises(cells) == \E i \in DOMAIN cells : cells[i].k = "garbage"
to_datetime(c) == IF c.k = "ts" THEN Ts(c.year, c.sec) ELSE NaT

\* A float64 value: a number or NaN.  LOS_HOURS is seconds / 3600 and is
\* kept as that quotient (num / den).
Num(v) == [na |-> FALSE, num |-> v, den |-> 1]
Quot(n, d) == [na |-> FALSE, num |-> n, den |-> d]
NaN == [na |-> TRUE, num |-> 0, den |-> 1]

\* Comparisons with a NaN operand are False, except != which is True.
Ge(x, n) == ~x.na /\ x.num >= n * x.den
Gt(x, n) == ~x.na /\ x.num > n * x.den
Ne(x, n) == x.na \/ x.num # n * x.den

IsLeap(y) == (y % 4 = 0 /\ y % 100 # 0) \/ y % 400 = 0
YearSeconds(y) == (IF IsLeap(y) THEN 366 ELSE 365) * 86400

\* a - b in seconds (Timedelta.total_seconds()), for a and b not NaT.
RECURSIVE SecondsBetween(_, _)
SecondsBetween(a, b) ==
    IF a.year = b.year THEN a.sec - b.sec
    ELSE IF a.year > b.year
         THEN (YearSeconds(b.year) - b.sec) + SecondsBetween(a, Ts(b.year + 1, 0))
         ELSE 0 - SecondsBetween(b, a)

\* t + pd.Timedelta(seconds=d), d >= 0, t not NaT.
RECURSIVE AddSeconds(_, _)
AddSeconds(t, d) ==
    IF t.sec + d < YearSeconds(t.year) THEN Ts(t.year, t.sec + d)
    ELSE AddSeconds(Ts(t.year + 1, 0), d - (YearSeconds(t.year) - t.sec))

\* a <= b on datetime64; False when either is NaT.
TsLeq(a, b) ==
    /\ ~a.nat /\ ~b.nat
    /\ (a.year < b.year \/ (a.year = b.year /\ a.sec <= b.sec))

-----------------------------------------------------------------------------
(* Strings: a string is the sequence of its characters *)

UpperLetters == <<"A","B","C","D","E","F","G","H","I","J","K","L","M",
                  "N","O","P","Q","R","S","T","U","V","W","X","Y","Z">>
LowerLetters == <<"a","b","c","d","e","f","g","h","i","j","k","l","m",
                  "n","o","p","q","r","s","t","u","v","w","x","y","z">>
Digits == {"0","1","2","3","4","5","6","7","8","9"}
\* \s of Python's re and str.strip()/str.split() whitespace (the vertical tab
\* has no TLA+ string escape and is left out)
Whitespace == {" ", "\t", "\n", "\r", "\f"}

IsUpper(c) == c \in Range(UpperLetters)
IsLower(c) == c \in Range(LowerLetters)
IsLetter(c) == IsUpper(c) \/ IsLower(c)
IsSpace(c) == c \in Whitespace

\* str.lower() on one character
lower_char(c) ==
    IF IsUpper(c)
    THEN LowerLetters[CHOOSE i \in DOMAIN UpperLetters : UpperLetters[i] = c]
    ELSE c
str_lower(s) == [i \in DOMAIN s |-> lower_char(s[i])]

\* str.strip(): leading and trailing whitespace removed
RECURSIVE lstrip(_)
lstrip(s) == IF s # <<>> /\ IsSpace(Head(s)) THEN lstrip(Tail(s)) ELSE s
RECURSIVE rstrip(_)
rstrip(s) ==
    IF s # <<>> /\ IsSpace(s[Len(s)]) THEN rstrip(SubSeq(s, 1, Len(s) - 1)) ELSE s
str_strip(s) == rstrip(lstrip(s))

\* A CATEGORY cell: a string, or NaN for an empty cell (the .str accessor
\* leaves NaN as it is).
Str(s) == [na |-> FALSE, s |-> s]
NaStr == [na |-> TRUE, s |-> <<>>]
normalise_category(c) == IF c.na THEN c ELSE Str(str_lower(str_strip(c.s)))

-----------------------------------------------------------------------------
(* Configuration (build_corpus.py, "Frozen Design Decisions") *)

ALLOWED_CATEGORIES ==
    { <<"p","h","y","s","i","c","i","a","n">>,
      <<"n","u","r","s","i","n","g">>,
      <<"n","u","r","s","i","n","g","/","o","t","h","e","r">> }

ALLOWED_UNITS == {"MICU", "CCU", "SICU", "TSICU", "CSRU"}

MIN_LOS_HOURS == 24
TIME_WINDOW_HOURS == 24
\* the literals of lines 172 and 175
MAX_PLAUSIBLE_AGE == 120
REPLACEMENT_AGE == 90
ADULT_AGE == 18
SECONDS_PER_HOUR == 3600

-----------------------------------------------------------------------------
(* build_corpus.py *)

\* lines 131 and 132: pd.to_datetime on a column of icustays
Column(table, col) == [i \in DOMAIN table |-> table[i][col]]
ParseColumn(table, col) ==
    [i \in DOMAIN table |-> [table[i] EXCEPT ![col] = to_datetime(@)]]

ParseINTIME ==
    /\ pc = "parse_intime"
    /\ IF to_datetime_raises(Column(icustays, "INTIME"))
       THEN pc' = "aborted" /\ UNCHANGED icustays
       ELSE pc' = "parse_outtime" /\ icustays' = ParseColumn(icustays, "INTIME")
    /\ UNCHANGED <<notes, patients, notes_filtered, corpus, icu_corpus_csv,
                 fileVars, profileVars>>

ParseOUTTIME ==
    /\ pc = "parse_outtime"
    /\ IF to_datetime_raises(Column(icustays, "OUTTIME"))
       THEN pc' = "aborted" /\ UNCHANGED icustays
       ELSE pc' = "unit_filter" /\ icustays' = ParseColumn(icustays, "OUTTIME")
    /\ UNCHANGED <<notes, patients, notes_filtered, corpus, icu_corpus_csv,
                 fileVars, profileVars>>

\* line 135: icustays[icustays["FIRST_CAREUNIT"].isin(ALLOWED_UNITS)]
InAllowedUnit(r) == r.FIRST_CAREUNIT \in ALLOWED_UNITS
UnitFilter ==
    /\ pc = "unit_filter"
    /\ icustays' = SelectSeq(icustays, InAllowedUnit)
    /\ pc' = "compute_los"
    /\ UNCHANGED <<notes, patients, notes_filtered, corpus, icu_corpus_csv,
                 fileVars, profileVars>>


\* A variant of los_hours that divides by 60: the length of stay in minutes.
los_hours_in_minutes(r) ==
    IF r.INTIME.nat \/ r.OUTTIME.nat THEN NaN
    ELSE Quot(SecondsBetween(r.OUTTIME, r.INTIME), 60)

\* lines 140-143: (OUTTIME - INTIME).dt.total_seconds() / 3600
los_hours(r) ==
    IF r.INTIME.nat \/ r.OUTTIME.nat THEN NaN
    ELSE Quot(SecondsBetween(r.OUTTIME, r.INTIME), SECONDS_PER_HOUR)
ComputeLOS ==
    /\ pc = "compute_los"
    /\ icustays' = [i \in DOMAIN icustays |->
                      icustays[i] @@ [LOS_HOURS |-> los_hours(icustays[i])]]
    /\ pc' = "los_filter"
    /\ UNCHANGED <<notes, patients, notes_filtered, corpus, icu_corpus_csv,
                 fileVars, profileVars>>

\* line 146: icustays[icustays["LOS_HOURS"] >= MIN_LOS_HOURS]
MeetsMinLOS(r) == Ge(r.LOS_HOURS, MIN_LOS_HOURS)
LOSFilter ==
    /\ pc = "los_filter"
    /\ icustays' = SelectSeq(icustays, MeetsMinLOS)
    /\ pc' = "parse_dob"
    /\ UNCHANGED <<notes, patients, notes_filtered, corpus, icu_corpus_csv,
                 fileVars, profileVars>>

\* line 153: patients["DOB"] = pd.to_datetime(patients["DOB"])
ParseDOB ==
    /\ pc = "parse_dob"
    /\ IF to_datetime_raises(Column(patients, "DOB"))
       THEN pc' = "aborted" /\ UNCHANGED patients
       ELSE pc' = "merge_patients" /\ patients' = ParseColumn(patients, "DOB")
    /\ UNCHANGED <<notes, icustays, notes_filtered, corpus, icu_corpus_csv,
                 fileVars, profileVars>>

\* lines 156-160: icustays.merge(patients[[SUBJECT_ID, DOB, GENDER]],
\* on="SUBJECT_ID", how="inner"): one row per (stay, patient) pair with equal
\* keys, in the order of the stays and, within a stay, of the patients.
SameSubject(l, r) == l.SUBJECT_ID = r.SUBJECT_ID
StayWithPatient(stay, pat) == stay @@ [DOB |-> pat.DOB, GENDER |-> pat.GENDER]
merge_patients(stays, pats) ==
    Concat([i \in DOMAIN stays |->
              LET m == SelectSeq(pats, LAMBDA p : SameSubject(stays[i], p))
              IN  [j \in DOMAIN m |-> StayWithPatient(stays[i], m[j])]])
MergePatients ==
    /\ pc = "merge_patients"
    /\ icustays' = merge_patients(icustays, patients)
    /\ pc' = "dob_filter"
    /\ UNCHANGED <<notes, patients, notes_filtered, corpus, icu_corpus_csv,
                 fileVars, profileVars>>

\* line 163: icustays[icustays["DOB"].notna()]
HasDOB(r) == ~r.DOB.nat
DOBFilter ==
    /\ pc = "dob_filter"
    /\ icustays' = SelectSeq(icustays, HasDOB)
    /\ pc' = "compute_age"
    /\ UNCHANGED <<notes, patients, notes_filtered, corpus, icu_corpus_csv,
                 fileVars, profileVars>>

\* lines 166-168: INTIME.dt.year - DOB.dt.year (NaN when either is NaT)
age_at_admission(r) ==
    IF r.INTIME.nat \/ r.DOB.nat THEN NaN ELSE Num(r.INTIME.year - r.DOB.year)
ComputeAge ==
    /\ pc = "compute_age"
    /\ icustays' = [i \in DOMAIN icustays |->
                      icustays[i] @@ [AGE |-> age_at_admission(icustays[i])]]
    /\ pc' = "cap_age"
    /\ UNCHANGED <<notes, patients, notes_filtered, corpus, icu_corpus_csv,
                 fileVars, profileVars>>


\* A variant of cap_age with >= for >: the age 120 is rewritten too.
cap_age_from_threshold(r) ==
    IF Ge(r.AGE, MAX_PLAUSIBLE_AGE) THEN [r EXCEPT !.AGE = Num(REPLACEMENT_AGE)]
    ELSE r
\* A variant of cap_age with -= for =: 90 is taken off the age.
cap_age_subtracting(r) ==
    IF Gt(r.AGE, MAX_PLAUSIBLE_AGE)
    THEN [r EXCEPT !.AGE = Num(r.AGE.num - REPLACEMENT_AGE)]
    ELSE r

\* line 172: icustays.loc[icustays["AGE"] > 120, "AGE"] = 90
cap_age(r) ==
    IF Gt(r.AGE, MAX_PLAUSIBLE_AGE) THEN [r EXCEPT !.AGE = Num(REPLACEMENT_AGE)]
    ELSE r
cap_ages(table) == [i \in DOMAIN table |-> cap_age(table[i])]
CapAge ==
    /\ pc = "cap_age"
    /\ icustays' = cap_ages(icustays)
    /\ pc' = "adult_filter"
    /\ UNCHANGED <<notes, patients, notes_filtered, corpus, icu_corpus_csv,
                 fileVars, profileVars>>

\* line 175: icustays[icustays["AGE"] >= 18]
IsAdult(r) == Ge(r.AGE, ADULT_AGE)
AdultFilter ==
    /\ pc = "adult_filter"
    /\ icustays' = SelectSeq(icustays, IsAdult)
    /\ pc' = "normalise_category"
    /\ UNCHANGED <<notes, patients, notes_filtered, corpus, icu_corpus_csv,
                 fileVars, profileVars>>

\* line 184: notes["CATEGORY"].str.strip().str.lower()
NormaliseCategory ==
    /\ pc = "normalise_category"
    /\ notes' = [i \in DOMAIN notes |->
                   [notes[i] EXCEPT !.CATEGORY = normalise_category(@)]]
    /\ pc' = "category_filter"
    /\ UNCHANGED <<icustays, patients, notes_filtered, corpus, icu_corpus_csv,
                 fileVars, profileVars>>

\* line 187: notes[notes["CATEGORY"].isin(ALLOWED_CATEGORIES)]
InAllowedCategory(r) == ~r.CATEGORY.na /\ r.CATEGORY.s \in ALLOWED_CATEGORIES
CategoryFilter ==
    /\ pc = "category_filter"
    /\ notes_filtered' = SelectSeq(notes, InAllowedCategory)
    /\ pc' = "error_filter"
    /\ UNCHANGED <<notes, icustays, patients, corpus, icu_corpus_csv,
                 fileVars, profileVars>>


\* A variant of NotMarkedError with == 0 for != 1: a missing flag is dropped.
MarkedNotError(r) == ~r.ISERROR.na /\ r.ISERROR.num = 0

\* line 192: notes_filtered[notes_filtered["ISERROR"] != 1]
NotMarkedError(r) == Ne(r.ISERROR, 1)
ErrorFilter ==
    /\ pc = "error_filter"
    /\ notes_filtered' = SelectSeq(notes_filtered, NotMarkedError)
    /\ pc' = "merge_icustays"
    /\ UNCHANGED <<notes, icustays, patients, corpus, icu_corpus_csv,
                 fileVars, profileVars>>


\* A variant of SameAdmission that joins on SUBJECT_ID alone.
SameSubjectOnly(l, r) == l.SUBJECT_ID = r.SUBJECT_ID

\* lines 201-205: notes_filtered.merge(icustays, on=[SUBJECT_ID, HADM_ID],
\* how="inner")
SameAdmission(l, r) == l.SUBJECT_ID = r.SUBJECT_ID /\ l.HADM_ID = r.HADM_ID
NoteWithStay(note, stay) == note @@ stay
merge_icustays(ns, stays) ==
    Concat([i \in DOMAIN ns |->
              LET m == SelectSeq(stays, LAMBDA s : SameAdmission(ns[i], s))
              IN  [j \in DOMAIN m |-> NoteWithStay(ns[i], m[j])]])
MergeICUStays ==
    /\ pc = "merge_icustays"
    /\ notes_filtered' = merge_icustays(notes_filtered, icustays)
    /\ pc' = "parse_charttime"
    /\ UNCHANGED <<notes, icustays, patients, corpus, icu_corpus_csv,
                 fileVars, profileVars>>

\* line 214: pd.to_datetime(notes_filtered["CHARTTIME"])
ParseCHARTTIME ==
    /\ pc = "parse_charttime"
    /\ IF to_datetime_raises(Column(notes_filtered, "CHARTTIME"))
       THEN pc' = "aborted" /\ UNCHANGED notes_filtered
       ELSE /\ pc' = "dropna"
            /\ notes_filtered' = ParseColumn(notes_filtered, "CHARTTIME")
    /\ UNCHANGED <<notes, icustays, patients, corpus, icu_corpus_csv,
                 fileVars, profileVars>>

\* line 217: notes_filtered.dropna(subset=["CHARTTIME", "INTIME"])
HasTimestamps(r) == ~r.CHARTTIME.nat /\ ~r.INTIME.nat
DropNa ==
    /\ pc = "dropna"
    /\ notes_filtered' = SelectSeq(notes_filtered, HasTimestamps)
    /\ pc' = "time_window"
    /\ UNCHANGED <<notes, icustays, patients, corpus, icu_corpus_csv,
                 fileVars, profileVars>>


\* A variant of InTimeWindow with < for <= at the end of the window.
InTimeWindowOpenEnd(r) ==
    /\ TsLeq(r.INTIME, r.CHARTTIME)
    /\ ~r.CHARTTIME.nat
    /\ ~TsLeq(AddSeconds(r.INTIME, TIME_WINDOW_HOURS * SECONDS_PER_HOUR),
              r.CHARTTIME)

\* lines 220-226: CHARTTIME >= INTIME and
\* CHARTTIME <= INTIME + pd.Timedelta(hours=TIME_WINDOW_HOURS)
InTimeWindow(r) ==
    /\ TsLeq(r.INTIME, r.CHARTTIME)
    /\ TsLeq(r.CHARTTIME,
             AddSeconds(r.INTIME, TIME_WINDOW_HOURS * SECONDS_PER_HOUR))
TimeWindow ==
    /\ pc = "time_window"
    /\ notes_filtered' = SelectSeq(notes_filtered, InTimeWindow)
    /\ pc' = "project"
    /\ UNCHANGED <<notes, icustays, patients, corpus, icu_corpus_csv,
                 fileVars, profileVars>>

\* lines 234-247: the ten corpus columns, in this order
CorpusColumns ==
    <<"SUBJECT_ID", "HADM_ID", "ICUSTAY_ID", "AGE", "GENDER", "FIRST_CAREUNIT",
      "LOS_HOURS", "CATEGORY", "CHARTTIME", "TEXT">>
project(r) == [c \in Range(CorpusColumns) |-> r[c]]
Project ==
    /\ pc = "project"
    /\ corpus' = [i \in DOMAIN notes_filtered |-> project(notes_filtered[i])]
    /\ pc' = "save"
    /\ UNCHANGED <<notes, icustays, patients, notes_filtered, icu_corpus_csv,
                 fileVars, profileVars>>

\* line 255: corpus.to_csv("data/processed/icu_corpus.csv")
Save ==
    /\ pc = "save"
    /\ icu_corpus_csv' = corpus
    /\ pc' = "done"
    /\ UNCHANGED <<notes, icustays, patients, notes_filtered, corpus,
                 fileVars, profileVars>>

NextCorpus ==
    \/ ParseINTIME \/ ParseOUTTIME \/ UnitFilter \/ ComputeLOS \/ LOSFilter
    \/ ParseDOB \/ MergePatients \/ DOBFilter \/ ComputeAge \/ CapAge
    \/ AdultFilter \/ NormaliseCategory \/ CategoryFilter \/ ErrorFilter
    \/ MergeICUStays \/ ParseCHARTTIME \/ DropNa \/ TimeWindow \/ Project
    \/ Save

\* lines 71-99: the state after the three read_csv calls
Loaded(noteRows, stayRows, patientRows) ==
    /\ NOTEEVENTS_csv = noteRows /\ notes = noteRows
    /\ ICUSTAYS_csv = stayRows /\ icustays = stayRows
    /\ PATIENTS_csv = patientRows /\ patients = patientRows
    /\ pc = "parse_intime"
    /\ notes_filtered = <<>> /\ corpus = <<>> /\ icu_corpus_csv = <<>>

-----------------------------------------------------------------------------
(* quant_profiling.py: the metric functions *)

Max(S) == CHOOSE x \in S : \A y \in S : y <= x
Min(S) == CHOOSE x \in S : \A y \in S : x <= y

IsDigit(c) == c \in Digits
\* \w: a letter, a digit or the underscore
IsWord(c) == IsLetter(c) \/ IsDigit(c) \/ c = "_"
\* [A-Za-z\s] and [A-Z\s]
IsLetterOrSpace(c) == IsLetter(c) \/ IsSpace(c)
IsUpperOrSpace(c) == IsUpper(c) \/ IsSpace(c)
\* . without DOTALL: any character but the newline
IsDot(c) == c # "\n"

\* The number of characters from position p on that are all in the class.
InClass(class, c) ==
    CASE class = "digit" -> IsDigit(c)
      [] class = "letter_or_space" -> IsLetterOrSpace(c)
      [] class = "upper_or_space" -> IsUpperOrSpace(c)
      [] class = "dot" -> IsDot(c)
RunLength(text, p, class) ==
    Max({k \in 0..(Len(text) - p + 1) :
            \A i \in 0..(k - 1) : InClass(class, text[p + i])})

\* text[p .. p + Len(lit) - 1] = lit
LiteralAt(text, p, lit) ==
    /\ p + Len(lit) - 1 <= Len(text)
    /\ \A i \in 1..Len(lit) : text[p + i - 1] = lit[i]

\* ^ with re.MULTILINE: the start of the text or just after a newline
LineStartAt(text, p) == p = 1 \/ text[p - 1] = "\n"

\* \b: exactly one of the characters before and at p is a word character
WordAt(text, p) == p \in 1..Len(text) /\ IsWord(text[p])
BoundaryAt(text, p) == WordAt(text, p - 1) # WordAt(text, p)

\* re.findall: the matches from left to right, each search starting where
\* the match before ended.  ends[p] is the position just after the match
\* that starts at p, 0 when none starts there (no pattern here matches the
\* empty string).  A match is <<first position, position after the last>>.
RECURSIVE findall(_, _)
findall(ends, pos) ==
    IF pos > Len(ends) THEN <<>>
    ELSE IF ends[pos] = 0 THEN findall(ends, pos + 1)
    ELSE <<<<pos, ends[pos]>>>> \o findall(ends, ends[pos])


\* A variant of colon_header_end for r"^[A-Z][A-Za-z\s]+:$": the colon has
\* to end its line.
colon_header_end_at_eol(text, p) ==
    IF ~(LineStartAt(text, p) /\ IsUpper(text[p])) THEN 0
    ELSE LET run == RunLength(text, p + 1, "letter_or_space")
             ks == {k \in 1..run :
                      /\ LiteralAt(text, p + 1 + k, <<":">>)
                      /\ (p + 1 + k = Len(text) \/ text[p + 2 + k] = "\n")}
         IN  IF ks = {} THEN 0 ELSE p + 1 + Max(ks) + 1

\* line 61, r"^[A-Z][A-Za-z\s]+:" at p: the greedy + takes the longest run and
\* gives characters back until a colon follows.
colon_header_end(text, p) ==
    IF ~(LineStartAt(text, p) /\ IsUpper(text[p])) THEN 0
    ELSE LET run == RunLength(text, p + 1, "letter_or_space")
             ks == {k \in 1..run : LiteralAt(text, p + 1 + k, <<":">>)}
         IN  IF ks = {} THEN 0 ELSE p + 1 + Max(ks) + 1
colon_header_matches(text) ==
    findall([p \in 1..Len(text) |-> colon_header_end(text, p)], 1)
count_colon_headers(text) == Len(colon_header_matches(text))

\* line 73, r"^[A-Z\s]{3,}:" at p
uppercase_block_end(text, p) ==
    IF ~LineStartAt(text, p) THEN 0
    ELSE LET run == RunLength(text, p, "upper_or_space")
             ks == {k \in 3..run : LiteralAt(text, p + k, <<":">>)}
         IN  IF ks = {} THEN 0 ELSE p + Max(ks) + 1
count_uppercase_blocks(text) ==
    Len(findall([p \in 1..Len(text) |-> uppercase_block_end(text, p)], 1))

\* line 84, r"\b\d+(\.\d+)?\b" at p: for each length of the first digit run,
\* longest first, the decimal part is tried before the match without it.
decimal_part_end(text, q) ==
    IF ~LiteralAt(text, q, <<".">>) THEN 0
    ELSE LET run == RunLength(text, q + 1, "digit")
             ks == {k \in 1..run : BoundaryAt(text, q + 1 + k)}
         IN  IF ks = {} THEN 0 ELSE q + 1 + Max(ks)
numeric_token_end(text, p) ==
    IF ~BoundaryAt(text, p) THEN 0
    ELSE LET run == RunLength(text, p, "digit")
             tail(q) == IF decimal_part_end(text, q) # 0
                        THEN decimal_part_end(text, q)
                        ELSE IF BoundaryAt(text, q) THEN q ELSE 0
             ks == {k \in 1..run : tail(p + k) # 0}
         IN  IF ks = {} THEN 0 ELSE tail(p + Max(ks))
count_numeric_tokens(text) ==
    Len(findall([p \in 1..Len(text) |-> numeric_token_end(text, p)], 1))

\* line 95, r"\b\d{2,3}/\d{2,3}\b" at p: three digits are tried before two
bp_pattern_end(text, p) ==
    IF ~BoundaryAt(text, p) THEN 0
    ELSE LET run == RunLength(text, p, "digit")
             second(q) ==
                 IF ~LiteralAt(text, q, <<"/">>) THEN 0
                 ELSE LET run2 == RunLength(text, q + 1, "digit")
                          ks2 == {k \in 2..3 : k <= run2 /\ BoundaryAt(text, q + 1 + k)}
                      IN  IF ks2 = {} THEN 0 ELSE q + 1 + Max(ks2)
             ks == {k \in 2..3 : k <= run /\ second(p + k) # 0}
         IN  IF ks = {} THEN 0 ELSE second(p + Max(ks))
count_bp_patterns(text) ==
    Len(findall([p \in 1..Len(text) |-> bp_pattern_end(text, p)], 1))

\* line 107, r"\[\*\*.*?\*\*\]" at p: the lazy .*? takes the fewest
\* characters, none of them a newline, for which **] follows.
deid_token_end(text, p) ==
    IF ~LiteralAt(text, p, <<"[", "*", "*">>) THEN 0
    ELSE LET run == RunLength(text, p + 3, "dot")
             ks == {k \in 0..run : LiteralAt(text, p + 3 + k, <<"*", "*", "]">>)}
         IN  IF ks = {} THEN 0 ELSE p + 3 + Min(ks) + 3
deid_token_matches(text) ==
    findall([p \in 1..Len(text) |-> deid_token_end(text, p)], 1)
count_deid_tokens(text) == Len(deid_token_matches(text))

\* line 145, len(text.split()): the maximal runs of characters that are no
\* whitespace
token_count(text) ==
    Cardinality({p \in 1..Len(text) :
                    ~IsSpace(text[p]) /\ (p = 1 \/ IsSpace(text[p - 1]))})
\* line 146, text.count("\n") + 1
line_count(text) == Cardinality({p \in 1..Len(text) : text[p] = "\n"}) + 1

\* lines 135-147: the dictionary of one note
note_metrics(text) ==
    [colon_header_count |-> count_colon_headers(text),
     uppercase_header_count |-> count_uppercase_blocks(text),
     numeric_token_count |-> count_numeric_tokens(text),
     bp_pattern_count |-> count_bp_patterns(text),
     deid_token_count |-> count_deid_tokens(text),
     char_length |-> Len(text),
     token_count |-> token_count(text),
     line_count |-> line_count(text)]

-----------------------------------------------------------------------------
(* quant_profiling.py: main *)

MetricNames ==
    {"colon_header_count", "uppercase_header_count", "numeric_token_count",
     "bp_pattern_count", "deid_token_count", "char_length", "token_count",
     "line_count"}

\* lines 129-147: one turn of the loop over the sampled notes
ProfileNote ==
    /\ ppc = "loop"
    /\ Len(metrics) < Len(sample_df)
    /\ metrics' = Append(metrics, note_metrics(sample_df[Len(metrics) + 1]))
    /\ UNCHANGED <<ppc, sample_df, summary, corpusVars, fileVars>>

\* lines 162-168: of describe() the count, and percent_notes_nonzero as the
\* quotient 100 * (rows with a value above 0) / rows; the mean, deviation and
\* quartiles are floating-point statistics no property here reads.
Summarise ==
    /\ ppc = "loop"
    /\ Len(metrics) = Len(sample_df)
    /\ summary' =
          [m \in MetricNames |->
              [count |-> Len(metrics),
               percent_notes_nonzero |->
                   Quot(100 * Cardinality({i \in DOMAIN metrics : metrics[i][m] > 0}),
                        Len(metrics))]]
    /\ ppc' = "done"
    /\ UNCHANGED <<sample_df, metrics, corpusVars, fileVars>>

NextProfile == ProfileNote \/ Summarise

\* quant_profiling.py not running
ProfilingIdle ==
    ppc = "done" /\ sample_df = <<>> /\ metrics = <<>> /\ summary = <<>>

-----------------------------------------------------------------------------
(* Input tables *)

MaxStays == 2
MaxPatients == 2
MaxNotes == 2

NoteTexts == <<"note 1", "note 2", "note 3", "note 4">>

\* ICUSTAY_ID is the key of ICUSTAYS: a row's id is its position.
StayTable(rows) == [i \in DOMAIN rows |-> rows[i] @@ [ICUSTAY_ID |-> 200 + i]]
\* Each note carries a text of its own.
NoteTable(rows) == [i \in DOMAIN rows |-> rows[i] @@ [TEXT |-> NoteTexts[i]]]

StayRow(subject, hadm, unit, intime, outtime) ==
    [SUBJECT_ID |-> subject, HADM_ID |-> hadm, FIRST_CAREUNIT |-> unit,
     INTIME |-> intime, OUTTIME |-> outtime]
PatientRow(subject, dob, gender) ==
    [SUBJECT_ID |-> subject, DOB |-> dob, GENDER |-> gender]
NoteRow(subject, hadm, charttime, category, iserror) ==
    [SUBJECT_ID |-> subject, HADM_ID |-> hadm, CHARTTIME |-> charttime,
     CATEGORY |-> category, ISERROR |-> iserror]

\* 2100-01-01 00:00:00 and offsets from it in seconds (2100 has 365 days)
Admit == TsCell(2100, 0)
AdmitPlus(seconds) == TsCell(2100, seconds)
\* 2100-12-31 00:00:00, whose 24-hour window ends on 2101-01-01 00:00:00
YearEnd == TsCell(2100, 364 * 86400)
BornBefore(years) == TsCell(2100 - years, 0)

Physician == Str(<<"p","h","y","s","i","c","i","a","n">>)
PaddedPhysician == Str(<<" ","P","h","y","s","i","c","i","a","n"," ">>)
NursingOther == Str(<<"N","u","r","s","i","n","g","/","o","t","h","e","r">>)
Radiology == Str(<<"R","a","d","i","o","l","o","g","y">>)

\* The cohort inputs: stays that differ in unit, length of stay and subject,
\* patients that differ in date of birth; subject 2 has no patient row.
CohortStayRows ==
    { StayRow(1, 10, "MICU", Admit, AdmitPlus(24 * 3600)),
      StayRow(1, 10, "MICU", Admit, AdmitPlus(24 * 3600 - 1)),
      StayRow(1, 11, "NICU", Admit, AdmitPlus(25 * 3600)),
      StayRow(2, 20, "CSRU", Admit, AdmitPlus(25 * 3600)) }
CohortPatientRows ==
    { PatientRow(1, dob, "F") :
        dob \in {EmptyCell, BornBefore(17), BornBefore(18), BornBefore(120),
                 BornBefore(121), BornBefore(155), BornBefore(300)} }
CohortNotes == NoteTable(<<NoteRow(1, 10, AdmitPlus(3600), Physician, NaN)>>)

InitCohort ==
    /\ \E stayRows \in SeqsUpTo(CohortStayRows, MaxStays),
          patientRows \in SeqsUpTo(CohortPatientRows, MaxPatients) :
          Loaded(CohortNotes, StayTable(stayRows), patientRows)
    /\ ProfilingIdle

\* The note inputs: notes that differ in category, error flag and admission;
\* admission 10 has a qualified stay, admission 11 of the same subject a
\* neonatal one.
FilterNoteRows ==
    { NoteRow(k[1], k[2], AdmitPlus(3600), category, iserror) :
        k \in {<<1, 10>>, <<1, 11>>},
        category \in {PaddedPhysician, NursingOther, Radiology, NaStr},
        iserror \in {NaN, Num(0), Num(1)} }
FilterStays ==
    StayTable(<<StayRow(1, 10, "MICU", Admit, AdmitPlus(25 * 3600)),
                StayRow(1, 11, "NICU", Admit, AdmitPlus(25 * 3600))>>)
FilterPatients == <<PatientRow(1, BornBefore(60), "F")>>

InitNotes ==
    /\ \E noteRows \in SeqsUpTo(FilterNoteRows, MaxNotes) :
          Loaded(NoteTable(noteRows), FilterStays, FilterPatients)
    /\ ProfilingIdle

\* The window inputs: notes of admission 10 charted around the two ends of
\* the window, with an empty or an unreadable chart time; stays of admission
\* 10 admitted at 00:00 or exactly 24 hours later, or with an empty or an
\* unreadable in-time; one patient, whose row may be repeated.
WindowNoteRows ==
    { NoteRow(1, 10, charttime, Physician, NaN) :
        charttime \in {AdmitPlus(0), AdmitPlus(24 * 3600),
                       AdmitPlus(24 * 3600 + 1), TsCell(2099, 365 * 86400 - 1),
                       EmptyCell, GarbageCell} }
WindowStayRows ==
    { StayRow(1, 10, "MICU", Admit, AdmitPlus(24 * 3600)),
      StayRow(1, 10, "SICU", AdmitPlus(24 * 3600), AdmitPlus(72 * 3600)),
      StayRow(1, 10, "CCU", EmptyCell, AdmitPlus(25 * 3600)),
      StayRow(1, 10, "CCU", GarbageCell, AdmitPlus(25 * 3600)) }
WindowPatientRows == {PatientRow(1, BornBefore(60), "F")}

Init ==
    /\ \E noteRows \in SeqsUpTo(WindowNoteRows, MaxNotes),
          stayRows \in SeqsUpTo(WindowStayRows, MaxStays),
          patientRows \in SeqsUpTo(WindowPatientRows, MaxPatients) :
          Loaded(NoteTable(noteRows), StayTable(stayRows), patientRows)
    /\ ProfilingIdle

\* The texts profiled: a text and the same text with more text appended,
\* both built from a few fragments (a letter, a newline, a colon, and the two
\* ends of a de-identification placeholder).
MaxFragmentsA == 3
MaxFragmentsB == 2
TextFragments ==
    { <<"A">>, <<"\n">>, <<":">>, <<"[", "*", "*">>, <<"*", "*", "]">> }

InitText ==
    /\ \E a \in SeqsUpTo(TextFragments, MaxFragmentsA),
          b \in SeqsUpTo(TextFragments, MaxFragmentsB) :
          sample_df = <<Concat(a), Concat(a) \o Concat(b)>>
    /\ ppc = "loop" /\ metrics = <<>> /\ summary = <<>>
    /\ Loaded(<<>>, <<>>, <<>>)

Spec == Init /\ [][NextCorpus]_vars
SpecText == InitText /\ [][NextProfile]_vars
SpecCohort == InitCohort /\ [][NextCorpus]_vars
SpecNotes == InitNotes /\ [][NextCorpus]_vars

-----------------------------------------------------------------------------
(* Properties of build_corpus.py *)

\* The Qualified Stay table is icustays once the adult filter has run.
CohortDone ==
    pc \in {"normalise_category", "category_filter", "error_filter",
            "merge_icustays", "parse_charttime", "dropna", "time_window",
            "project", "save", "done"}
\* notes_filtered holds the joined table from the merge on.
Joined == pc \in {"parse_charttime", "dropna", "time_window", "project",
                  "save", "done"}

WindowSeconds == TIME_WINDOW_HOURS * SECONDS_PER_HOUR
MinLOSSeconds == MIN_LOS_HOURS * SECONDS_PER_HOUR

\* The age the script computes for a stay row, from the row's own columns.
ComputedAge(r) == r.INTIME.year - r.DOB.year

\* C1: once the Cohort Filter has run, every row of the Qualified Stay table
\* has its first care unit in the allowed set, a length of stay of at least
\* 24 hours (out-time minus in-time, at least 24 * 3600 seconds), a date of
\* birth, and a corrected age of at least 18.
C1_QualifiedStayInvariant ==
    CohortDone =>
        \A i \in DOMAIN icustays :
            LET r == icustays[i] IN
            /\ r.FIRST_CAREUNIT \in ALLOWED_UNITS
            /\ ~r.INTIME.nat /\ ~r.OUTTIME.nat
            /\ SecondsBetween(r.OUTTIME, r.INTIME) >= MinLOSSeconds
            /\ ~r.DOB.nat
            /\ ~r.AGE.na /\ r.AGE.den = 1 /\ r.AGE.num >= ADULT_AGE

\* C1's case: of two stays read, the filter kept one and dropped the other.
C1_Witness ==
    /\ CohortDone
    /\ Len(ICUSTAYS_csv) = 2 /\ Len(PATIENTS_csv) = 1 /\ Len(icustays) = 1

\* C6: when the adult filter is about to run the correction has been
\* applied (no age above 120 is left), and the correction resets and never
\* drops: every stay that passes the unit and length-of-stay filters and has
\* a patient with a date of birth is in the Qualified Stay table with age 90
\* when its computed age is above 120, and with its computed age when that
\* is between 18 and 120.
C6_ResetBeforeFilter ==
    /\ pc = "adult_filter" =>
          \A i \in DOMAIN icustays : icustays[i].AGE.num <= MAX_PLAUSIBLE_AGE
    /\ CohortDone =>
          \A i \in DOMAIN ICUSTAYS_csv, j \in DOMAIN PATIENTS_csv :
             LET s == ICUSTAYS_csv[i]
                 p == PATIENTS_csv[j]
                 age == s.INTIME.year - p.DOB.year
                 kept(a) == \E k \in DOMAIN icustays :
                               /\ icustays[k].ICUSTAY_ID = s.ICUSTAY_ID
                               /\ icustays[k].DOB = to_datetime(p.DOB)
                               /\ icustays[k].AGE = Num(a)
             IN  ( /\ s.FIRST_CAREUNIT \in ALLOWED_UNITS
                   /\ s.INTIME.k = "ts" /\ s.OUTTIME.k = "ts" /\ p.DOB.k = "ts"
                   /\ SecondsBetween(s.OUTTIME, s.INTIME) >= MinLOSSeconds
                   /\ s.SUBJECT_ID = p.SUBJECT_ID )
                 => /\ age > MAX_PLAUSIBLE_AGE => kept(REPLACEMENT_AGE)
                    /\ (age >= ADULT_AGE /\ age <= MAX_PLAUSIBLE_AGE) => kept(age)

\* C6's case: a stay with computed age 155 is in the Qualified Stay table
\* with age 90, beside one that kept its computed age of 120.
C6_Witness ==
    /\ CohortDone
    /\ \E i \in DOMAIN icustays :
          ComputedAge(icustays[i]) = 155 /\ icustays[i].AGE = Num(90)
    /\ \E i \in DOMAIN icustays :
          ComputedAge(icustays[i]) = 120 /\ icustays[i].AGE = Num(120)

\* C7: the age correction is idempotent: the table the correction produced
\* is unchanged by a second correction, and none of its ages exceeds 120.
C7_CorrectionIdempotent ==
    pc = "adult_filter" =>
        /\ cap_ages(icustays) = icustays
        /\ \A i \in DOMAIN icustays : icustays[i].AGE.num <= MAX_PLAUSIBLE_AGE

\* C7's case: the correction has just rewritten an age (300 to 90) and left
\* another (121 would be rewritten, 18 is not) as it was.
C7_Witness ==
    /\ pc = "adult_filter"
    /\ \E i \in DOMAIN icustays :
          ComputedAge(icustays[i]) = 300 /\ icustays[i].AGE = Num(90)
    /\ \E i \in DOMAIN icustays :
          ComputedAge(icustays[i]) = 18 /\ icustays[i].AGE = Num(18)

\* The raw rows a corpus row was made of.
RawStayOf(c) ==
    CHOOSE s \in Range(ICUSTAYS_csv) : s.ICUSTAY_ID = c.ICUSTAY_ID
CorpusRowsOf(n, s) ==
    {k \in DOMAIN icu_corpus_csv :
        /\ icu_corpus_csv[k].TEXT = n.TEXT
        /\ icu_corpus_csv[k].ICUSTAY_ID = s.ICUSTAY_ID}

\* C2: every corpus row's chart time is at least the in-time of its stay and
\* at most 24 hours (86400 seconds) after it; and of the notes of a qualified
\* stay that pass the Note Filter, exactly those charted 0 to 86400 seconds
\* after the in-time, both ends included, have a corpus row with that stay.
C2_WindowInclusive ==
    pc = "done" =>
        /\ \A k \in DOMAIN icu_corpus_csv :
              LET c == icu_corpus_csv[k]
                  d == SecondsBetween(c.CHARTTIME, to_datetime(RawStayOf(c).INTIME))
              IN  RawStayOf(c).INTIME.k = "ts" /\ d >= 0 /\ d <= WindowSeconds
        /\ \A i \in DOMAIN NOTEEVENTS_csv, j \in DOMAIN icustays :
              LET n == NOTEEVENTS_csv[i]
                  s == icustays[j]
              IN  ( /\ n.CHARTTIME.k = "ts"
                    /\ n.SUBJECT_ID = s.SUBJECT_ID /\ n.HADM_ID = s.HADM_ID
                    /\ ~notes[i].CATEGORY.na
                    /\ notes[i].CATEGORY.s \in ALLOWED_CATEGORIES
                    /\ notes[i].ISERROR # Num(1) )
                  => LET d == SecondsBetween(to_datetime(n.CHARTTIME), s.INTIME)
                     IN  (d >= 0 /\ d <= WindowSeconds) <=> CorpusRowsOf(n, s) # {}

\* C2's case: one stay admitted at 00:00:00; the note charted exactly 24
\* hours later is the corpus, the note charted one second after that is not.
C2_Witness ==
    /\ pc = "done"
    /\ Len(ICUSTAYS_csv) = 1 /\ ICUSTAYS_csv[1].INTIME = Admit
    /\ Len(NOTEEVENTS_csv) = 2
    /\ NOTEEVENTS_csv[1].CHARTTIME = AdmitPlus(24 * 3600)
    /\ NOTEEVENTS_csv[2].CHARTTIME = AdmitPlus(24 * 3600 + 1)
    /\ Len(icu_corpus_csv) = 1
    /\ icu_corpus_csv[1].TEXT = NOTEEVENTS_csv[1].TEXT

\* C3: the join invents no row: every row of the joined table, and of the
\* corpus, is a note of the notes table whose category is allowed and whose
\* error flag is not 1, with the (subject, admission) pair of a row of the
\* Qualified Stay table; a note with no such stay has no row.
C3_JoinInventsNoRows ==
    Joined =>
        /\ \A k \in DOMAIN notes_filtered :
              LET c == notes_filtered[k] IN
              /\ \E i \in DOMAIN notes :
                    /\ notes[i].TEXT = c.TEXT
                    /\ notes[i].SUBJECT_ID = c.SUBJECT_ID
                    /\ notes[i].HADM_ID = c.HADM_ID
                    /\ ~notes[i].CATEGORY.na
                    /\ notes[i].CATEGORY.s \in ALLOWED_CATEGORIES
                    /\ notes[i].ISERROR # Num(1)
              /\ \E j \in DOMAIN icustays :
                    /\ icustays[j].ICUSTAY_ID = c.ICUSTAY_ID
                    /\ icustays[j].SUBJECT_ID = c.SUBJECT_ID
                    /\ icustays[j].HADM_ID = c.HADM_ID
        /\ \A i \in DOMAIN notes :
              (\A j \in DOMAIN icustays :
                  ~(/\ icustays[j].SUBJECT_ID = notes[i].SUBJECT_ID
                    /\ icustays[j].HADM_ID = notes[i].HADM_ID))
              => /\ \A k \in DOMAIN notes_filtered :
                       notes_filtered[k].TEXT # notes[i].TEXT
                 /\ \A k \in DOMAIN corpus : corpus[k].TEXT # notes[i].TEXT

\* C3's case: two physician notes, one of the admission with the qualified
\* stay and one of the admission without; the corpus holds the first only.
C3_Witness ==
    /\ pc = "done"
    /\ Len(notes) = 2
    /\ notes[1].HADM_ID = 11 /\ notes[2].HADM_ID = 10
    /\ notes[1].CATEGORY = Physician /\ notes[2].CATEGORY = Physician
    /\ notes[1].ISERROR = Num(0) /\ notes[2].ISERROR = Num(0)
    /\ Len(corpus) = 1 /\ corpus[1].TEXT = notes[2].TEXT

\* c is a string whose strip().lower() is a: c is whitespace, then a string
\* that lower-cases to a character by character, then whitespace; a is empty
\* or starts and ends with a character that is no whitespace.
NormalisesTo(c, a) ==
    \E lead \in 0..Len(c) :
        /\ lead + Len(a) <= Len(c)
        /\ \A i \in 1..lead : IsSpace(c[i])
        /\ \A i \in (lead + Len(a) + 1)..Len(c) : IsSpace(c[i])
        /\ \A i \in 1..Len(a) : lower_char(c[lead + i]) = a[i]
        /\ a # <<>> => ~IsSpace(a[1]) /\ ~IsSpace(a[Len(a)])

\* C8: when the Note Filter has run, a note is in the filtered table exactly
\* when its category, stripped and lower-cased, is physician, nursing or
\* nursing/other and its error flag is not 1 (a missing flag is not 1), and
\* it is there with the stripped, lower-cased category.
C8_NoteFilter ==
    pc = "merge_icustays" =>
        \A i \in DOMAIN NOTEEVENTS_csv :
            LET n == NOTEEVENTS_csv[i]
                rows == {k \in DOMAIN notes_filtered :
                            notes_filtered[k].TEXT = n.TEXT}
                allowed == {a \in ALLOWED_CATEGORIES :
                               ~n.CATEGORY.na /\ NormalisesTo(n.CATEGORY.s, a)}
                flagged == ~n.ISERROR.na /\ n.ISERROR.num = n.ISERROR.den
            IN  /\ rows # {} <=> (allowed # {} /\ ~flagged)
                /\ \A k \in rows :
                      /\ ~notes_filtered[k].CATEGORY.na
                      /\ notes_filtered[k].CATEGORY.s \in allowed
                      /\ notes_filtered[k].ISERROR = n.ISERROR

\* C8's case: " Physician " with a missing flag is retained as "physician",
\* " Physician " with flag 1 is excluded.
C8_Witness ==
    /\ pc = "merge_icustays"
    /\ Len(NOTEEVENTS_csv) = 2
    /\ NOTEEVENTS_csv[1].CATEGORY = PaddedPhysician
    /\ NOTEEVENTS_csv[1].ISERROR = NaN
    /\ NOTEEVENTS_csv[2].CATEGORY = PaddedPhysician
    /\ NOTEEVENTS_csv[2].ISERROR = Num(1)
    /\ Len(notes_filtered) = 1
    /\ notes_filtered[1].TEXT = NOTEEVENTS_csv[1].TEXT
    /\ notes_filtered[1].CATEGORY = Physician

\* A note of the notes table qualifies when it passes the Note Filter and is
\* charted inside the window of a qualified stay of its admission.
Qualifies(i) ==
    /\ ~notes[i].CATEGORY.na /\ notes[i].CATEGORY.s \in ALLOWED_CATEGORIES
    /\ notes[i].ISERROR # Num(1)
    /\ NOTEEVENTS_csv[i].CHARTTIME.k = "ts"
    /\ \E j \in DOMAIN icustays :
          /\ icustays[j].SUBJECT_ID = notes[i].SUBJECT_ID
          /\ icustays[j].HADM_ID = notes[i].HADM_ID
          /\ LET d == SecondsBetween(to_datetime(NOTEEVENTS_csv[i].CHARTTIME),
                                     icustays[j].INTIME)
             IN  d >= 0 /\ d <= WindowSeconds

\* C4: the corpus has exactly one row for every qualifying note, however
\* many ICU-stay rows its admission and patient rows its subject have.
C4_OneRowPerQualifyingNote ==
    pc = "done" =>
        \A i \in DOMAIN notes :
            Qualifies(i) =>
                Cardinality({k \in DOMAIN icu_corpus_csv :
                                icu_corpus_csv[k].TEXT = notes[i].TEXT}) = 1

\* The (note, stay) pairs of the corpus when every row with an empty or an
\* unreadable chart time or in-time is left out of the input and every other
\* row is processed.
ExpectedPairs ==
    { <<n.TEXT, s.ICUSTAY_ID>> :
        <<n, s>> \in
          { ns \in Range(NOTEEVENTS_csv) \X Range(ICUSTAYS_csv) :
              LET n == ns[1]
                  s == ns[2]
              IN  /\ n.CHARTTIME.k = "ts" /\ s.INTIME.k = "ts" /\ s.OUTTIME.k = "ts"
                  /\ n.SUBJECT_ID = s.SUBJECT_ID /\ n.HADM_ID = s.HADM_ID
                  /\ ~n.CATEGORY.na
                  /\ \E a \in ALLOWED_CATEGORIES : NormalisesTo(n.CATEGORY.s, a)
                  /\ n.ISERROR # Num(1)
                  /\ s.FIRST_CAREUNIT \in ALLOWED_UNITS
                  /\ SecondsBetween(s.OUTTIME, s.INTIME) >= MinLOSSeconds
                  /\ \E p \in Range(PATIENTS_csv) :
                        /\ p.SUBJECT_ID = s.SUBJECT_ID /\ p.DOB.k = "ts"
                        /\ s.INTIME.year - p.DOB.year >= ADULT_AGE
                  /\ LET d == SecondsBetween(to_datetime(n.CHARTTIME),
                                             to_datetime(s.INTIME))
                     IN  d >= 0 /\ d <= WindowSeconds } }

\* C5: a chart time or in-time that cannot be parsed drops its row and no
\* more: the run does not abort, and the corpus written is the corpus of the
\* other rows.
C5_BadTimestampDropsOnlyItsRow ==
    /\ pc # "aborted"
    /\ pc = "done" =>
          {<<icu_corpus_csv[k].TEXT, icu_corpus_csv[k].ICUSTAY_ID>> :
              k \in DOMAIN icu_corpus_csv} = ExpectedPairs

-----------------------------------------------------------------------------
(* Properties of quant_profiling.py *)

IsPrefix(a, b) == Len(a) <= Len(b) /\ SubSeq(b, 1, Len(a)) = a

\* C9: appending text to a text lowers neither its de-identification token
\* count nor its colon-header count: of two profiled texts of which the first
\* is a prefix of the second, the second has counts at least as large.
C9_CountsMonotone ==
    \A i \in DOMAIN metrics, j \in DOMAIN metrics :
        IsPrefix(sample_df[i], sample_df[j]) =>
            /\ metrics[j].deid_token_count >= metrics[i].deid_token_count
            /\ metrics[j].colon_header_count >= metrics[i].colon_header_count

\* C9's case: a text with a colon header, and the same text with a
\* placeholder appended: the header is still counted, the placeholder is new.
C9_Witness ==
    /\ Len(metrics) = 2
    /\ Len(sample_df[1]) > 0 /\ Len(sample_df[1]) < Len(sample_df[2])
    /\ IsPrefix(sample_df[1], sample_df[2])
    /\ metrics[1].colon_header_count = 1 /\ metrics[2].colon_header_count = 1
    /\ metrics[1].deid_token_count = 0 /\ metrics[2].deid_token_count = 1

\* The lines of a text: the pieces between its newlines.
RECURSIVE Lines(_)
Lines(text) ==
    IF \A p \in DOMAIN text : text[p] # "\n" THEN <<text>>
    ELSE LET nl == Min({p \in DOMAIN text : text[p] = "\n"})
         IN  <<SubSeq(text, 1, nl - 1)>> \o Lines(SubSeq(text, nl + 1, Len(text)))

\* A line that begins with an uppercase letter followed by one or more
\* letters or whitespace characters and then a colon.
IsColonHeaderLine(line) ==
    \E k \in 1..(Len(line) - 2) :
        /\ IsUpper(line[1])
        /\ \A i \in 2..(k + 1) : IsLetter(line[i]) \/ IsSpace(line[i])
        /\ line[k + 2] = ":"

\* C10: the colon-header count of a text is the number of its lines that,
\* each on its own, are colon-header lines, and no counted match holds a
\* newline.
C10_ColonHeadersPerLine ==
    \A i \in DOMAIN metrics :
        LET text == sample_df[i] IN
        /\ metrics[i].colon_header_count =
              Cardinality({l \in DOMAIN Lines(text) : IsColonHeaderLine(Lines(text)[l])})
        /\ \A m \in Range(colon_header_matches(text)) :
              \A p \in m[1]..(m[2] - 1) : text[p] # "\n"

====
